---- MODULE Spec2Model ----
(***************************************************************************)
(* Model of the FileUpload widget                                          *)
(*   src/src/widget/file-upload/ui/file-upload.widget.tsx                  *)
(*                                                                         *)
(* The widget keeps one piece of React state, selectedFiles, a list of     *)
(* ISelectedFile objects.  JavaScript objects have identity and are shared *)
(* between the lists that hold them, so the model keeps a heap of objects  *)
(* (heap) and lists of object references.  Every handler runs from the     *)
(* closure of the latest render (rendered), queues a state updater, and    *)
(* React re-renders before the next event is dispatched.                   *)
(***************************************************************************)
EXTENDS Integers, Sequences, FiniteSets, TLC

\* ------------------------------------------------------------ bounds
MaxObjs == 3        \* ISelectedFile objects ever created in one run
MaxBatch == 2       \* files carried by one file-select event
MaxInFlight == 2    \* requests in flight at the same time

\* ------------------------------------------------- program constants
\* "../constants" (imported at line 20); the values are scaled down.
MAX_FILES_LENGTH == 2
MAX_FILE_SIZE == 2

Locale == "en"                      \* useLocale()
NoTarget == "undefined"             \* convertTarget?: keyof FormatEnum
Targets == {"png"}                  \* keyof FormatEnum, one of them
ErrorMessages == {"boom", "busy"}           \* error.message of a failed request
Foreign == 0                        \* an ISelectedFile that is in no list

\* File handles the browser can hand over: name, size, MIME type.
MkFile(n, s, major, minor) == [name |-> n, size |-> s, type |-> <<major, minor>>]
Files ==
    { MkFile("a.png", MAX_FILE_SIZE, "image", "png"),
      MkFile("b.jpg", 1, "image", "jpeg"),
      MkFile("c.png", MAX_FILE_SIZE + 1, "image", "png"),
      MkFile("e.txt", MAX_FILE_SIZE + 1, "text", "plain") }

Batches == UNION { [1..n -> Files] : n \in 0..MaxBatch }

ObjIds == 1..MaxObjs
Dead == [file |-> MkFile("", 0, "", ""), convertTarget |-> NoTarget]

VARIABLES
    heap,           \* object id -> ISelectedFile {file, convertTarget}
    nextId,         \* next object id to allocate
    selectedFiles,  \* the useState value: a list of object ids
    rendered,       \* selectedFiles as captured by the latest render
    inFlight,       \* requests sent and not yet resolved
    ev              \* what the latest event did

vars == <<heap, nextId, selectedFiles, rendered, inFlight, ev>>

\* ------------------------------------------------------- sequences
Range(s) == { s[i] : i \in 1..Len(s) }
Min(a, b) == IF a < b THEN a ELSE b
Max(a, b) == IF a > b THEN a ELSE b

\* The values seen through a list of references.
View(h, list) == [i \in 1..Len(list) |-> h[list[i]]]

\* ---------------------------------------------------- notifications
Note(level, key, name, size, quantity, message) ==
    [level |-> level, key |-> key, name |-> name, size |-> size,
     quantity |-> quantity, message |-> message]

\* prettyBytes(n, { locale }): a formatted text, never the number itself
prettyBytes(n, locale) == <<"prettyBytes", n, locale>>

FileTypeWarn(file) == Note("warn", "file_type_warn", file.name, <<>>, 0, "")
MaxSizeWarn(file) ==
    Note("warn", "max_size_warn", file.name, prettyBytes(MAX_FILE_SIZE, Locale), 0, "")
MaxFilesWarn == Note("warn", "max_files_warn", "", <<>>, MAX_FILES_LENGTH, "")
TargetWarn == Note("warn", "target_warn", "", <<>>, 0, "")
ConvertSuccess == Note("success", "convert_success", "", <<>>, 0, "")
ErrorNote(message) == Note("error", "", "", <<>>, 0, message)

\* ------------------------------------------------ onFileSelectHandle
isToLarge(file) == file.size > MAX_FILE_SIZE
isImage(file) == file.type[1] = "image"      \* type.startsWith("image/")

\* mutant: the size test is forgotten
FileAccepted_NoSizeTest(file) == isImage(file)

\* the filter callback's return value
FileAccepted(file) ==
    IF ~isImage(file) THEN FALSE
    ELSE IF isToLarge(file) THEN FALSE
    ELSE ~isToLarge(file) /\ isImage(file)

\* the warnings the filter callback fires for one file
FileWarnings(file) ==
    IF ~isImage(file) THEN <<FileTypeWarn(file)>>
    ELSE IF isToLarge(file) THEN <<MaxSizeWarn(file)>>
    ELSE <<>>

RECURSIVE FilterWarnings(_)
FilterWarnings(files) ==
    IF files = <<>> THEN <<>>
    ELSE FileWarnings(Head(files)) \o FilterWarnings(Tail(files))

FilterFiles(files) == SelectSeq(files, FileAccepted)

\* mutant: only the first disjunct is tested
IsOverLimit_SelectedOnly(nNew, nSelected) == nSelected > MAX_FILES_LENGTH

\* the condition of the quantity check
IsOverLimit(nNew, nSelected) ==
    nSelected > MAX_FILES_LENGTH \/ nNew + nSelected > MAX_FILES_LENGTH

\* mutant: the last deleteCount elements instead of the first
Splice0_FromEnd(s, deleteCount) ==
    SubSeq(s, Len(s) - Min(Max(deleteCount, 0), Len(s)) + 1, Len(s))

\* Array.prototype.splice(0, deleteCount): the removed elements
Splice0(s, deleteCount) ==
    SubSeq(s, 1, Min(Max(deleteCount, 0), Len(s)))

\* newFiles after the quantity check
Truncated(newFiles, nSelected) ==
    IF IsOverLimit(Len(newFiles), nSelected)
    THEN Splice0(newFiles, MAX_FILES_LENGTH - nSelected)
    ELSE newFiles

QuantityWarnings(newFiles, nSelected) ==
    IF IsOverLimit(Len(newFiles), nSelected) THEN <<MaxFilesWarn>> ELSE <<>>

\* createSelectedFiles(prevFiles, newFiles): the files to wrap, those not
\* already selected
createSelectedFiles(h, prevFiles, newFiles) ==
    LET known(f) == \E i \in 1..Len(prevFiles) : h[prevFiles[i]].file = f
        fresh(f) == ~known(f)
    IN  SelectSeq(newFiles, fresh)

\* An object no list refers to any more is garbage: nothing reads it again.
Collect(h, live) == [o \in ObjIds |-> IF o \in live THEN h[o] ELSE Dead]

\* The objects still referred to after an event: those of the list the event
\* started from, of the list it installed and of the rendered list.
Live(after, shown) ==
    Range(selectedFiles) \cup Range(rendered) \cup Range(after) \cup Range(shown)

\* ---------------------------------------------------- the re-render
\* mutant: the handlers keep the closure of an earlier render
Render_Stale(state, oldRendered) == oldRendered

\* The component function runs again with the new state; the handlers of
\* the next event close over that value.
Render(state, oldRendered) == state

NoEvent ==
    [kind |-> "init", files |-> <<>>, arg |-> Foreign, target |-> NoTarget,
     before |-> <<>>, beforeView |-> <<>>, snapshot |-> <<>>,
     warnings |-> <<>>, calls |-> 0, sent |-> <<>>, inFlightBefore |-> 0,
     message |-> ""]

Event(kind) ==
    [NoEvent EXCEPT !.kind = kind,
                    !.before = selectedFiles,
                    !.beforeView = View(heap, selectedFiles),
                    !.snapshot = rendered,
                    !.inFlightBefore = inFlight]

\* the shape of the state
TypeOK ==
    /\ nextId \in 1..(MaxObjs + 1)
    /\ \A o \in ObjIds :
          /\ heap[o].convertTarget \in Targets \cup {NoTarget}
          /\ (heap[o] # Dead => heap[o].file \in Files /\ o < nextId)
    /\ \A i \in 1..Len(selectedFiles) : selectedFiles[i] \in ObjIds
    /\ \A i \in 1..Len(rendered) : rendered[i] \in ObjIds
    /\ inFlight \in 0..MaxInFlight

Init ==
    /\ heap = [i \in ObjIds |-> Dead]
    /\ nextId = 1
    /\ selectedFiles = <<>>
    /\ rendered = <<>>
    /\ inFlight = 0
    /\ ev = NoEvent

onFileSelectHandle ==
    \E files \in Batches :
        IF Len(files) = 0
        THEN /\ ev' = [Event("select") EXCEPT !.files = files]
             /\ heap' = Collect(heap, Live(selectedFiles, rendered))
             /\ UNCHANGED <<nextId, selectedFiles, rendered, inFlight>>
        ELSE
          LET filtered == FilterFiles(files)
              newFiles == Truncated(filtered, Len(rendered))
              created == createSelectedFiles(heap, selectedFiles, newFiles)
              n == Len(created)
              ids == [i \in 1..n |-> nextId + i - 1]
          IN  /\ nextId + n - 1 <= MaxObjs
              /\ nextId' = nextId + n
              /\ selectedFiles' = selectedFiles \o ids
              /\ rendered' = Render(selectedFiles', rendered)
              /\ heap' = Collect(
                            [o \in ObjIds |->
                                IF o >= nextId /\ o < nextId + n
                                THEN [file |-> created[o - nextId + 1],
                                      convertTarget |-> NoTarget]
                                ELSE heap[o]],
                            Live(selectedFiles', rendered'))
              /\ ev' = [Event("select") EXCEPT
                          !.files = files,
                          !.warnings = FilterWarnings(files)
                                       \o QuantityWarnings(filtered, Len(rendered))]
              /\ UNCHANGED inFlight

\* --------------------------------------------------- onSubmitHandle
\* mutant: only the first item is looked at
hasNoTargetSomeFile_FirstOnly(h, list) ==
    Len(list) > 0 /\ h[list[1]].convertTarget = NoTarget

\* selectedFiles.find(({ convertTarget }) => !convertTarget) found an item
hasNoTargetSomeFile(h, list) ==
    \E i \in 1..Len(list) : h[list[i]].convertTarget = NoTarget

\* mutant: a submit is also refused while a request is in flight
SubmitRefused_WhileLoading(h, list, isLoading) ==
    isLoading \/ hasNoTargetSomeFile(h, list)

\* the early return of onSubmitHandle; isLoading is in scope and not read
SubmitRefused(h, list, isLoading) == hasNoTargetSomeFile(h, list)

\* uuid.v4(): tokens that do not repeat
Uuids == {"u1", "u2"}
UuidRuns(n) == { u \in [1..n -> Uuids] : \A i, j \in 1..n : u[i] = u[j] => i = j }

FileField(id, file) == [name |-> <<"file", id>>, value |-> file]
\* mutant: the target field is not keyed by the item's own id
TargetField_SharedKey(id, convertTarget) ==
    [name |-> <<"target", "u1">>, value |-> convertTarget]

TargetField(id, convertTarget) == [name |-> <<"target", id>>, value |-> convertTarget]

RECURSIVE AppendFields(_, _, _, _)
\* the forEach over selectedFiles, two formData.append calls per item
AppendFields(formData, h, list, ids) ==
    IF list = <<>> THEN formData
    ELSE AppendFields(
            formData \o << FileField(Head(ids), h[Head(list)].file),
                           TargetField(Head(ids), h[Head(list)].convertTarget) >>,
            h, Tail(list), Tail(ids))

\* the conversion client hook: one more request in flight
sendFilesToConvert(n) == n + 1
\* the hook settles one request
settle(n) == n - 1

onSubmitHandle ==
    IF SubmitRefused(heap, rendered, inFlight > 0)
    THEN /\ ev' = [Event("submit") EXCEPT !.warnings = <<TargetWarn>>]
         /\ heap' = Collect(heap, Live(selectedFiles, rendered))
         /\ UNCHANGED <<nextId, selectedFiles, rendered, inFlight>>
    ELSE \E ids \in UuidRuns(Len(rendered)) :
            /\ inFlight < MaxInFlight
            /\ inFlight' = sendFilesToConvert(inFlight)
            /\ ev' = [Event("submit") EXCEPT
                        !.calls = 1,
                        !.sent = AppendFields(<<>>, heap, rendered, ids)]
            /\ heap' = Collect(heap, Live(selectedFiles, rendered))
            /\ UNCHANGED <<nextId, selectedFiles, rendered>>

\* mutant: the notification does not carry error.message
onErrorNotes_NoMessage(message) == <<ErrorNote("")>>

\* the onError callback: notifyError(error.message)
onErrorNotes(message) == <<ErrorNote(message)>>

\* the onSuccess callback: notifySuccess(["convert_success"])
onSuccessNotes == <<ConvertSuccess>>

\* the request of an earlier submit succeeds
onSuccess ==
    /\ inFlight > 0
    /\ inFlight' = settle(inFlight)
    /\ ev' = [Event("success") EXCEPT !.warnings = onSuccessNotes]
    /\ heap' = Collect(heap, Live(selectedFiles, rendered))
    /\ UNCHANGED <<nextId, selectedFiles, rendered>>

\* the request of an earlier submit fails
onError ==
    \E message \in ErrorMessages :
        /\ inFlight > 0
        /\ inFlight' = settle(inFlight)
        /\ ev' = [Event("error") EXCEPT !.warnings = onErrorNotes(message),
                                        !.message = message]
        /\ heap' = Collect(heap, Live(selectedFiles, rendered))
        /\ UNCHANGED <<nextId, selectedFiles, rendered>>

\* ------------------------------------- onConvertTargetChangeHandle
\* Array.prototype.findIndex by identity; 0 stands for -1
findIndex(list, obj) ==
    IF \E i \in 1..Len(list) : list[i] = obj
    THEN CHOOSE i \in 1..Len(list) :
            list[i] = obj /\ \A j \in 1..(i - 1) : list[j] # obj
    ELSE 0

\* prevSelectedFiles[index].convertTarget = convertTarget
AssignTarget(h, obj, convertTarget) ==
    [h EXCEPT ![obj].convertTarget = convertTarget]

\* any ISelectedFile ever created, or one that never was in a list
Objects == {Foreign} \cup { o \in ObjIds : o < nextId }

onConvertTargetChangeHandle ==
    \E selectedFile \in Objects, convertTarget \in Targets :
        LET index == findIndex(selectedFiles, selectedFile)
        IN  /\ IF index = 0
               THEN /\ heap' = Collect(heap, Live(selectedFiles, rendered))
                    /\ UNCHANGED <<selectedFiles, rendered>>
               ELSE /\ selectedFiles' = selectedFiles
                    /\ rendered' = Render(selectedFiles', rendered)
                    /\ heap' = Collect(
                            AssignTarget(heap, selectedFiles[index], convertTarget),
                            Live(selectedFiles', rendered'))
            /\ ev' = [Event("settarget") EXCEPT !.arg = selectedFile,
                                                !.target = convertTarget]
            /\ UNCHANGED <<nextId, inFlight>>

\* ----------------------------------------------- onFilesClearHandle
onFilesClearHandle ==
    /\ selectedFiles' = <<>>
    /\ rendered' = Render(selectedFiles', rendered)
    /\ ev' = Event("clear")
    /\ heap' = Collect(heap, Live(selectedFiles', rendered'))
    /\ UNCHANGED <<nextId, inFlight>>

\* --------------------------------------- onRemoveSelectedFileHandle
\* mutant: splice(indexOf(selectedFile), 1); an index of -1 drops the last item
RemoveFrom_Splice(prevSelectedFiles, selectedFile) ==
    LET index == findIndex(prevSelectedFiles, selectedFile)
        at == IF index = 0 THEN Len(prevSelectedFiles) ELSE index
    IN  [i \in 1..Max(Len(prevSelectedFiles) - 1, 0) |->
            IF i < at THEN prevSelectedFiles[i] ELSE prevSelectedFiles[i + 1]]

\* prevSelectedFiles.filter(prevSelectedFile => prevSelectedFile !== selectedFile)
RemoveFrom(prevSelectedFiles, selectedFile) ==
    LET keep(prevSelectedFile) == prevSelectedFile # selectedFile
    IN  SelectSeq(prevSelectedFiles, keep)

onRemoveSelectedFileHandle ==
    \E selectedFile \in Objects :
        /\ selectedFiles' = RemoveFrom(selectedFiles, selectedFile)
        /\ rendered' = Render(selectedFiles', rendered)
        /\ ev' = [Event("remove") EXCEPT !.arg = selectedFile]
        /\ heap' = Collect(heap, Live(selectedFiles', rendered'))
        /\ UNCHANGED <<nextId, inFlight>>

Next ==
    \/ onFileSelectHandle
    \/ onSubmitHandle
    \/ onSuccess
    \/ onError
    \/ onConvertTargetChangeHandle
    \/ onFilesClearHandle
    \/ onRemoveSelectedFileHandle

Spec == Init /\ [][Next]_vars
\* =================================================================
\* Properties
\* =================================================================
Mutations == {"select", "settarget", "remove", "clear"}

\* what a file-select event was given, read off the files themselves
PassesFilters(f) == f.type[1] = "image" /\ f.size <= MAX_FILE_SIZE
Occurrences(seq, x) == Cardinality({ i \in 1..Len(seq) : seq[i] = x })
Fired(key) == { i \in 1..Len(ev.warnings) : ev.warnings[i].key = key }
FiredFor(key, name) == { i \in Fired(key) : ev.warnings[i].name = name }
MissingTargetBefore ==
    \E i \in 1..Len(ev.beforeView) : ev.beforeView[i].convertTarget = NoTarget
SelectionUntouched ==
    /\ selectedFiles = ev.before
    /\ View(heap, selectedFiles) = ev.beforeView

\* C1: in every reachable state the selected-file list holds at most
\* MAX_FILES_LENGTH items.
C1_LengthBounded == Len(selectedFiles) <= MAX_FILES_LENGTH

\* C1 witness: a file-select event that had to truncate filled the list
C1_Witness ==
    /\ ev.kind = "select"
    /\ Fired("max_files_warn") # {}
    /\ Len(selectedFiles) = MAX_FILES_LENGTH
    /\ Len(ev.before) < MAX_FILES_LENGTH

\* C2: a submit while some selected item has no convertTarget is refused:
\* sendFilesToConvert is not called, exactly one target warning is fired
\* and the selected-file list is unchanged.
C2_SubmitRefused ==
    (ev.kind = "submit" /\ MissingTargetBefore) =>
        /\ ev.calls = 0
        /\ inFlight = ev.inFlightBefore
        /\ ev.warnings = <<TargetWarn>>
        /\ SelectionUntouched

\* C2 witness: a refused submit where the first item has a target and a
\* later one has none
C2_Witness ==
    /\ ev.kind = "submit"
    /\ Len(ev.beforeView) = 2
    /\ ev.beforeView[1].convertTarget # NoTarget
    /\ ev.beforeView[2].convertTarget = NoTarget

\* C3 as stated: every file of a file-select event whose size exceeds
\* MAX_FILE_SIZE, whatever its MIME type, is not added and gets a size
\* warning carrying the formatted ceiling.
C3_Original ==
    ev.kind = "select" =>
        \A k \in 1..Len(ev.files) :
            ev.files[k].size > MAX_FILE_SIZE =>
                /\ \A i \in 1..Len(selectedFiles) :
                        heap[selectedFiles[i]].file # ev.files[k]
                /\ \E w \in FiredFor("max_size_warn", ev.files[k].name) :
                        ev.warnings[w].size = prettyBytes(MAX_FILE_SIZE, Locale)

\* C3 amended: every oversized file is left out of the list; an oversized
\* file of an image type gets one size warning per occurrence, carrying the
\* formatted ceiling; an oversized file of another type gets one type
\* warning per occurrence and no size warning.
C3_Amended ==
    ev.kind = "select" =>
        \A k \in 1..Len(ev.files) :
            LET f == ev.files[k]
            IN  f.size > MAX_FILE_SIZE =>
                  /\ \A i \in 1..Len(selectedFiles) : heap[selectedFiles[i]].file # f
                  /\ IF f.type[1] = "image"
                     THEN /\ Cardinality(FiredFor("max_size_warn", f.name))
                                = Occurrences(ev.files, f)
                          /\ \A w \in FiredFor("max_size_warn", f.name) :
                                ev.warnings[w].size = prettyBytes(MAX_FILE_SIZE, Locale)
                          /\ FiredFor("file_type_warn", f.name) = {}
                     ELSE /\ FiredFor("max_size_warn", f.name) = {}
                          /\ Cardinality(FiredFor("file_type_warn", f.name))
                                = Occurrences(ev.files, f)

\* C3 witness: one event carried an oversized image and an oversized
\* file of another type
C3_Witness ==
    /\ ev.kind = "select"
    /\ \E k \in 1..Len(ev.files) :
            ev.files[k].size > MAX_FILE_SIZE /\ ev.files[k].type[1] = "image"
    /\ \E k \in 1..Len(ev.files) :
            ev.files[k].size > MAX_FILE_SIZE /\ ev.files[k].type[1] # "image"

\* C4: with M items selected and N files passing the filters, N + M >
\* MAX_FILES_LENGTH fires exactly one quantity warning and appends the first
\* MAX_FILES_LENGTH - M accepted files; otherwise no quantity warning is
\* fired and all N are appended.  The count appended is stated for the
\* events where createSelectedFiles yields one item per file it is given.
C4_Truncation ==
    (ev.kind = "select" /\ Len(ev.files) > 0) =>
        LET M == Len(ev.before)
            accepted == SelectSeq(ev.files, PassesFilters)
            N == Len(accepted)
            over == N + M > MAX_FILES_LENGTH
            given == IF over THEN SubSeq(accepted, 1, MAX_FILES_LENGTH - M)
                     ELSE accepted
            onePerFile ==
                \A k \in 1..Len(given) : \A i \in 1..M :
                    ev.beforeView[i].file # given[k]
        IN  /\ Cardinality(Fired("max_files_warn")) = (IF over THEN 1 ELSE 0)
            /\ onePerFile =>
                /\ Len(selectedFiles) = M + Len(given)
                /\ Len(given) = (IF over THEN MAX_FILES_LENGTH - M ELSE N)
                /\ SubSeq(selectedFiles, 1, M) = ev.before
                /\ \A k \in 1..Len(given) :
                      heap[selectedFiles[M + k]] =
                          [file |-> given[k], convertTarget |-> NoTarget]

\* C4 witness: one item selected, two different new files accepted, the
\* first of them appended
C4_Witness ==
    /\ ev.kind = "select"
    /\ Len(ev.before) = MAX_FILES_LENGTH - 1
    /\ Len(ev.files) = 2
    /\ PassesFilters(ev.files[1]) /\ PassesFilters(ev.files[2])
    /\ ev.files[1] # ev.files[2]
    /\ Len(selectedFiles) = MAX_FILES_LENGTH
    /\ heap[selectedFiles[MAX_FILES_LENGTH]].file = ev.files[1]

\* C5: a submit that is not refused calls sendFilesToConvert exactly once
\* with 2 x n fields: for item i a file_<id> field holding its file and a
\* target_<id> field holding its convertTarget, same id, ids distinct
\* between items.
C5_Payload ==
    (ev.kind = "submit" /\ ~MissingTargetBefore) =>
        LET n == Len(ev.before)
        IN  /\ ev.calls = 1
            /\ inFlight = ev.inFlightBefore + 1
            /\ Len(ev.sent) = 2 * n
            /\ \A i \in 1..n :
                /\ ev.sent[2 * i - 1].name[1] = "file"
                /\ ev.sent[2 * i - 1].value = ev.beforeView[i].file
                /\ ev.sent[2 * i].name[1] = "target"
                /\ ev.sent[2 * i].value = ev.beforeView[i].convertTarget
                /\ ev.sent[2 * i].name[2] = ev.sent[2 * i - 1].name[2]
            /\ \A i, j \in 1..n :
                ev.sent[2 * i].name[2] = ev.sent[2 * j].name[2] => i = j

\* C5 witness: a submit of two items went out
C5_Witness ==
    /\ ev.kind = "submit"
    /\ ev.calls = 1
    /\ Len(ev.before) = 2
    /\ Len(ev.sent) = 4

\* C6: a submit while an earlier request is in flight is not blocked: with
\* every item holding a target it calls sendFilesToConvert again, and two or
\* more requests are in flight.
C6_NoSubmitGuard ==
    (ev.kind = "submit" /\ ev.inFlightBefore > 0 /\ ~MissingTargetBefore) =>
        /\ ev.calls = 1
        /\ inFlight = ev.inFlightBefore + 1
        /\ inFlight >= 2

\* C6 witness: a submit sent while a request was in flight
C6_Witness ==
    /\ ev.kind = "submit"
    /\ ev.inFlightBefore > 0
    /\ ev.calls = 1
    /\ inFlight >= 2

\* C7: a submit and the resolution of a request leave the selected-file
\* list unchanged; a failure fires exactly one error notification carrying
\* the error message, and the user can edit and submit again.
C7_FailureRecoverable ==
    /\ ev.kind \in {"submit", "success", "error"} => SelectionUntouched
    /\ ev.kind = "error" =>
        /\ Len(ev.warnings) = 1
        /\ ev.warnings[1].level = "error"
        /\ ev.warnings[1].message = ev.message
        /\ inFlight = ev.inFlightBefore - 1
        /\ ENABLED onSubmitHandle
        /\ ENABLED onFilesClearHandle
        /\ ENABLED onRemoveSelectedFileHandle
        /\ ENABLED onConvertTargetChangeHandle

\* C7 witness: a request failed while two items with targets were selected
C7_Witness ==
    /\ ev.kind = "error"
    /\ ev.message = "busy"
    /\ Len(selectedFiles) = 2
    /\ ~MissingTargetBefore

RECURSIVE Without(_, _)
Without(seq, x) ==
    IF seq = <<>> THEN <<>>
    ELSE IF Head(seq) = x THEN Without(Tail(seq), x)
         ELSE <<Head(seq)>> \o Without(Tail(seq), x)

C9_Original ==
    ev.kind \in Mutations => View(heap, ev.before) = ev.beforeView

====
